---- MODULE Spec2Model ----
(***************************************************************************)
(* A model of google/go-tika: the HTTP client of tika/tika.go (call, the   *)
(* operations built on it, the recursive-metadata normalisation) and the   *)
(* readiness poll waitForStart of the Server, in the three forms the       *)
(* repository holds (the one-second sleep loop, the reused ticker, the     *)
(* per-iteration time.Tick under a startup timeout); the Server from       *)
(* NewServer over Start to Close, Stop or cancel with the process it       *)
(* spawns; and DownloadServer with the file at its path.                   *)
(***************************************************************************)
EXTENDS Integers, Sequences, FiniteSets, TLC

VARIABLES
    url,          \* Client.url
    httpClient,   \* Client.httpClient: "nil", "default" or "custom"
    op,           \* the client operation that ran last ("none" before any)
    exchange,     \* what the transport and the server did with its request
    ret,          \* what the operation returned
    requests      \* HTTP requests the operation issued

clientVars == <<url, httpClient, op, exchange, ret, requests>>

\* A call of Server.waitForStart. Time is counted in polling intervals of
\* 500ms from the moment of the call.
VARIABLES
    variant,      \* which waitForStart runs: "sleepLoop", "ticker" or "tickTimeout"
    timeout,      \* s.timeout, s.startupTimeout, or the timeout of the caller's ctx
    hasDeadline,  \* whether the ctx that waitForStart selects on has a deadline
    bounce,       \* the health requests the server fails before it answers 2xx
    served,       \* the health requests the server has answered
    pc,           \* where the call stands
    iLoop,        \* the sleep loop's counter i
    err,          \* the sleep loop's err
    now,          \* the time
    wakeAt,       \* when the sleep ends, or when the time.Tick of this select fires
    tickBuffered, \* the reused ticker's channel holds a tick
    ctxErr,       \* ctx.Err(): "none", "canceled" or "deadline exceeded"
    pollRet,      \* the error waitForStart returned
    attempts,     \* the health requests issued
    oks,          \* the health requests that returned a nil error
    lastFailure,  \* the error of the most recent failed health request
    waited,       \* the time slept or spent in select since the last request ended
    lastGap       \* waited, as it stood when the last request was issued

pollVars ==
    <<variant, timeout, hasDeadline, bounce, served, pc, iLoop, err, now, wakeAt,
      tickBuffered, ctxErr, pollRet, attempts, oks, lastFailure, waited, lastGap>>

\* A Server from NewServer to Close. The processes Start spawned are kept in
\* procs, in the order they were spawned.
VARIABLES
    api,          \* which server file runs: "Close", "StartServer", "Stop" or "cancel"
    jar,          \* the jar path handed to NewServer
    hostname,     \* the WithHostname option, or NoOption
    port,         \* the WithPort option, or NoOption
    newErr,       \* the error NewServer returned
    sUrl,         \* Server.url
    cmd,          \* Server.cmd: 0 for nil, else the place of its process in procs
    sDone,        \* Server.done: whether the field holds a channel, and the channel's buffer
    procs,        \* the processes spawned: state, whether Wait has reaped it, signals sent
    startPc,      \* where NewServer and Start stand
    startRet,     \* the error Start returned
    cancelCalled, \* the cancel of the process ctx has been called
    closers       \* the calls of Close or Stop: where each stands and what it returned

serverVars ==
    <<api, jar, hostname, port, newErr, sUrl, cmd, sDone, procs, startPc, startRet,
      cancelCalled, closers>>

\* A call of DownloadServer and the file at its path.
VARIABLES
    dBuild,       \* which DownloadServer runs: "md5" or "sha512"
    dVersion,     \* the version asked for
    file,         \* what path holds
    fileBefore,   \* what path held when DownloadServer was called
    dPc,          \* where the call stands
    dRet,         \* the error DownloadServer returned
    fetches,      \* the network requests DownloadServer issued
    fileWrites    \* the times DownloadServer created, wrote or removed the file

downloadVars == <<dBuild, dVersion, file, fileBefore, dPc, dRet, fetches, fileWrites>>

\* A run of the tika command, from flag.Parse to the exit of the process.
VARIABLES
    cliBuild,     \* which main.go runs: "cancel" (calls cancel before log.Fatalf) or "defer"
    flags,        \* the command line: the flags set and the action
    cliPc,        \* where main stands
    cancelVar,    \* main's variable cancel: "nil", or "set" once Start has returned it
    procCtxDone,  \* the ctx of the java process has been cancelled
    javaProc,     \* the java process this run started: "none", "running" or "killed"
    exit          \* how the run ended: exit status, message, and whether it panicked

cliVars == <<cliBuild, flags, cliPc, cancelVar, procCtxDone, javaProc, exit>>

vars == <<clientVars, pollVars, serverVars, downloadVars, cliVars>>

(***************************************************************************)
(* Bounds of the model.                                                    *)
(***************************************************************************)
\* The longest recursive-metadata response, in documents.
MaxDocs == 2

\* The largest timeout, in polling intervals.
MaxTimeout == 5

\* The most health requests the server fails before it answers 2xx.
MaxBounce == 3

\* The time up to which a call of waitForStart is followed.
MaxTime == 6

\* The calls of Start on one Server that are followed.
MaxStarts == 2

\* The most children of a parser or detector below the root's.
MaxChildren == 2

(***************************************************************************)
(* JSON values as encoding/json decodes them into interface{}.             *)
(***************************************************************************)
XTIKAContent == "X-TIKA:content"

OtherKey == "other_key"

Keys == {XTIKAContent, OtherKey}

\* A key the raw object does not hold.
Absent == [type |-> "absent", str |-> "", elems |-> <<>>]

JString(s) == [type |-> "string", str |-> s, elems |-> <<>>]

\* A JSON number, boolean, null or nested object: t names which.
JScalar(t) == [type |-> t, str |-> "", elems |-> <<>>]

JArray(e) == [type |-> "array", str |-> "", elems |-> e]

NonStringTypes == {"number", "bool", "null", "object"}

\* The values the content field takes in the responses of the model.
ContentValues ==
    { JString("a"), JString("b"),
      JArray(<<>>), JArray(<<JString("a")>>),
      JArray(<<JString("b"), JString("a")>>),
      JScalar("number") }

\* The values the other field takes: every shape the decoder can meet.
OtherValues ==
    { JString("a"),
      JArray(<<>>),
      JArray(<<JString("a"), JString("b")>>),
      JArray(<<JString("a"), JScalar("number")>>) }
    \cup { JScalar(t) : t \in NonStringTypes }

FieldValues(k) == IF k = XTIKAContent THEN ContentValues ELSE OtherValues

\* A raw JSON object: each key of Keys with its value, or Absent.
RawObjects ==
    { d \in [Keys -> ContentValues \cup OtherValues \cup {Absent}] :
        \A k \in Keys : d[k] \in FieldValues(k) \cup {Absent} }

NoMembers == [k \in Keys |-> Absent]

\* An element of the top-level array: an object, or a value that is none.
ObjectElem(d) == [type |-> "object", members |-> d]

OtherElem(t) == [type |-> t, members |-> NoMembers]

Elements ==
    { ObjectElem(d) : d \in RawObjects } \cup { OtherElem("null"), OtherElem("string") }

SeqsUpTo(S, n) == UNION { [1..m -> S] : m \in 0..n }

(***************************************************************************)
(* Response bodies: text that is no JSON, or a JSON document.              *)
(***************************************************************************)
TextBody(s) == [kind |-> "text", text |-> s, type |-> "none", items |-> <<>>]

JsonBody(t, items) == [kind |-> "json", text |-> "", type |-> t, items |-> items]

\* The truncated bytes ioutil.ReadAll hands back when the read fails.
PartialBody == [kind |-> "partial", text |-> "", type |-> "none", items |-> <<>>]

\* A nil []byte.
NoBytes == [kind |-> "nil", text |-> "", type |-> "none", items |-> <<>>]

TextBodies == { TextBody(""), TextBody("test value") }

JsonBodies ==
    { JsonBody("array", items) : items \in SeqsUpTo(Elements, MaxDocs) }
    \cup { JsonBody("object", <<>>), JsonBody("null", <<>>) }

(***************************************************************************)
(* Errors. A nil error is NilErr; the others say where they arose and hold *)
(* what their message is formatted from.                                   *)
(***************************************************************************)
Err(kind, code, field) == [kind |-> kind, code |-> code, field |-> field, body |-> NoBytes]

NilErr == Err("nil", 0, "")

\* fmt.Errorf("response code %v", resp.StatusCode)
StatusErr(s) == Err("status", s, "")

\* fmt.Errorf("field %q has value %v and type %v, expected ...", k, v, ...)
FieldErr(k) == Err("field", 0, k)

(***************************************************************************)
(* The request and what comes back for it.                                 *)
(***************************************************************************)
ValidURL == "http://localhost:9998"

BadURL == "http://localhost:%31"

ValidMethods == {"GET", "PUT", "POST"}

\* http.NewRequest fails on a method that is no token and on a URL that does not parse.
NewRequestOK(method, u) == method \in ValidMethods /\ u # BadURL

Statuses == {199, 200, 204, 299, 300, 404, 422, 500}

Exchange(kind, status, body, readOK) ==
    [kind |-> kind, status |-> status, body |-> body, readOK |-> readOK]

NoExchange == Exchange("none", 0, NoBytes, TRUE)

BadRequest == Exchange("badRequest", 0, NoBytes, TRUE)

TransportError == Exchange("transportError", 0, NoBytes, TRUE)

\* What a request that returns text can meet.
PlainExchanges ==
    { Exchange("response", s, b, r) : s \in Statuses, b \in TextBodies, r \in BOOLEAN }
    \cup {TransportError}

\* What a request that returns JSON can meet.
JsonExchanges ==
    PlainExchanges \cup { Exchange("response", 200, b, TRUE) : b \in JsonBodies }

\* The exchanges open to a request with this method on this client.
ExchangesFor(method, u, S) == IF NewRequestOK(method, u) THEN S ELSE {BadRequest}

(***************************************************************************)
(* Client.call and Client.callString.                                      *)
(***************************************************************************)
\* A slip in the range check: 200 itself is taken for a failure.
StatusOutside2xxOffByOne(s) == s <= 200 \/ s > 299

StatusOutside2xx(s) == s < 200 \/ s > 299

\* ioutil.ReadAll(resp.Body): the bytes read and the read's error.
ReadAll(ex) ==
    IF ex.readOK THEN [bytes |-> ex.body, err |-> NilErr]
    ELSE [bytes |-> PartialBody, err |-> Err("read", 0, "")]

call(ex) ==
    IF ex.kind = "badRequest" THEN [bytes |-> NoBytes, err |-> Err("request", 0, "")]
    ELSE IF ex.kind = "transportError" THEN [bytes |-> NoBytes, err |-> Err("transport", 0, "")]
    ELSE IF StatusOutside2xx(ex.status) THEN [bytes |-> NoBytes, err |-> StatusErr(ex.status)]
    ELSE ReadAll(ex)

\* A retry policy call does not have: a failed request is sent once more.
callRequestsRetrying(ex) ==
    IF ex.kind = "badRequest" THEN 0
    ELSE IF ex.kind = "transportError" \/ ex.status >= 500 THEN 2
    ELSE 1

\* The requests call sends: none when the request could not be built.
callRequests(ex) == IF ex.kind = "badRequest" THEN 0 ELSE 1

\* call installs http.DefaultClient in a Client that has none.
callHTTPClient(h) == IF h = "nil" THEN "default" ELSE h

EmptyString == TextBody("")

callString(ex) ==
    LET r == call(ex)
    IN  IF r.err # NilErr THEN [bytes |-> EmptyString, err |-> r.err]
        ELSE [bytes |-> r.bytes, err |-> NilErr]

(***************************************************************************)
(* Client.MetaRecursive: decode the body, then normalise every field.      *)
(***************************************************************************)
\* json.Unmarshal(body, &m) with m a []map[string]interface{}: a JSON null
\* leaves m nil, a null element is a nil map, any other shape is an error.
Unmarshal(body) ==
    IF body.kind # "json" THEN [docs |-> <<>>, err |-> Err("json", 0, "")]
    ELSE IF body.type = "null" THEN [docs |-> <<>>, err |-> NilErr]
    ELSE IF body.type # "array" THEN [docs |-> <<>>, err |-> Err("json", 0, "")]
    ELSE IF \E i \in 1..Len(body.items) : body.items[i].type \notin {"object", "null"}
         THEN [docs |-> <<>>, err |-> Err("json", 0, "")]
    ELSE [docs |-> [i \in 1..Len(body.items) |-> body.items[i].members], err |-> NilErr]

\* The inner switch: every element of the array is a string.
AllStrings(elems) == \A i \in 1..Len(elems) : elems[i].type = "string"

\* A slip in the inner switch: the elements of an array are not looked at.
AcceptedAnyArray(v) == v.type = "string" \/ v.type = "array"

\* The outer switch reaches no default case for v.
Accepted(v) ==
    \/ v.type = "string"
    \/ v.type = "array" /\ AllStrings(v.elems)

\* A slip in the inner loop: the strings are put in front, not appended.
NormalizeValuePrepending(v) ==
    IF v.type = "string" THEN <<v.str>>
    ELSE [i \in 1..Len(v.elems) |-> v.elems[Len(v.elems) + 1 - i].str]

\* doc[k] for an accepted v: []string{v}, or the strings appended in order.
NormalizeValue(v) ==
    IF v.type = "string" THEN <<v.str>>
    ELSE [i \in 1..Len(v.elems) |-> v.elems[i].str]

\* An entry of a map[string][]string, and the lack of one.
Entry(vals) == [has |-> TRUE, vals |-> vals]

NoEntry == [has |-> FALSE, vals |-> <<>>]

\* A slip in the array case: doc[k] is not set before the elements are
\* appended, so an empty array leaves no entry.
NormalizeDocWithoutEmpty(d) ==
    [k \in Keys |->
        IF d[k] = Absent \/ d[k] = JArray(<<>>) THEN [has |-> FALSE, vals |-> <<>>]
        ELSE [has |-> TRUE, vals |-> NormalizeValue(d[k])]]

\* The doc built for the raw object d: one entry per key that d holds.
NormalizeDoc(d) ==
    [k \in Keys |-> IF d[k] = Absent THEN NoEntry ELSE Entry(NormalizeValue(d[k]))]

\* The fields of d at which the loop over d returns an error.
RejectedKeys(d) == { k \in Keys : d[k] # Absent /\ ~Accepted(d[k]) }

\* The first raw object with such a field; 0 when there is none.
FirstRejected(docs) ==
    LET bad == { i \in 1..Len(docs) : RejectedKeys(docs[i]) # {} }
    IN  IF bad = {} THEN 0 ELSE CHOOSE i \in bad : \A j \in bad : i <= j

\* What the loops over m return. Go ranges over a map in no fixed order, so
\* of several rejected fields of one object any one may be the one named.
NormalizeAll(docs) ==
    LET f == FirstRejected(docs)
    IN  IF f # 0 THEN { [docs |-> <<>>, err |-> FieldErr(k)] : k \in RejectedKeys(docs[f]) }
        ELSE { [docs |-> [i \in 1..Len(docs) |-> NormalizeDoc(docs[i])], err |-> NilErr] }

MetaRecursive(ex) ==
    LET c == call(ex)
        u == Unmarshal(c.bytes)
    IN  IF c.err # NilErr THEN { [docs |-> <<>>, err |-> c.err] }
        ELSE IF u.err # NilErr THEN { [docs |-> <<>>, err |-> u.err] }
        ELSE NormalizeAll(u.docs)

(***************************************************************************)
(* Client.ParseRecursive.                                                  *)
(***************************************************************************)
\* A slip in the loop over m: a doc without content adds an empty string.
RECURSIVE ContentsPadded(_)
ContentsPadded(m) ==
    IF m = <<>> THEN <<>>
    ELSE LET content == Head(m)[XTIKAContent].vals
         IN  (IF Len(content) > 0 THEN <<content[1]>> ELSE <<"">>) \o ContentsPadded(Tail(m))

\* The loop over m: the first content string of each doc that has one.
RECURSIVE Contents(_)
Contents(m) ==
    IF m = <<>> THEN <<>>
    ELSE LET content == Head(m)[XTIKAContent].vals
         IN  (IF Len(content) > 0 THEN <<content[1]>> ELSE <<>>) \o Contents(Tail(m))

ParseRecursive(ex) ==
    { IF m.err # NilErr THEN [strs |-> <<>>, err |-> m.err]
      ELSE [strs |-> Contents(m.docs), err |-> NilErr] : m \in MetaRecursive(ex) }

(***************************************************************************)
(* The client's operations as actions. Each draws what the transport and   *)
(* the server do with its one request.                                     *)
(***************************************************************************)
Ret(bytes, docs, strs, e) == [bytes |-> bytes, docs |-> docs, strs |-> strs, err |-> e]

NoRet == Ret(NoBytes, <<>>, <<>>, NilErr)

\* The operations that return callString's result, with their methods.
StringOps ==
    { <<"Parse", "PUT">>, <<"Meta", "PUT">>, <<"MetaField", "PUT">>,
      <<"Detect", "PUT">>, <<"Language", "PUT">>, <<"LanguageString", "PUT">>,
      <<"Translate", "POST">>, <<"Version", "GET">> }

\* The operations that decode call's result into a struct or a map.
DecodeOps == {"Parsers", "MimeTypes", "Detectors"}

\* The methods call is handed in the tests, one of them invalid.
CallMethods == {"GET", "bad method"}

\* A Server.done that holds no channel.
NoDone == [set |-> FALSE, buf |-> <<>>]

\* The callers of Close or Stop on one Server.
Callers == {1, 2}

NotCalled == [pc |-> "idle", ret |-> NilErr]

\* No Server is made, and no process is spawned.
ServerAtRest ==
    /\ api = "none"
    /\ jar = ""
    /\ hostname = ""
    /\ port = ""
    /\ newErr = NilErr
    /\ sUrl = ""
    /\ cmd = 0
    /\ sDone = NoDone
    /\ procs = <<>>
    /\ startPc = "rest"
    /\ startRet = NilErr
    /\ cancelCalled = FALSE
    /\ closers = [c \in Callers |-> NotCalled]

\* No call of DownloadServer is under way.
DownloadAtRest ==
    /\ dBuild = "none"
    /\ dVersion = ""
    /\ file = "absent"
    /\ fileBefore = "absent"
    /\ dPc = "rest"
    /\ dRet = NilErr
    /\ fetches = 0
    /\ fileWrites = 0


\* The flags of a run: whether -download_version, -server_jar and
\* -server_url are set, the -filename, the action and the count of arguments.
Flags(dv, sj, su, fn, action, nargs) ==
    [downloadVersion |-> dv, serverJAR |-> sj, serverURL |-> su, filename |-> fn,
     action |-> action, nargs |-> nargs]

NoFlags == Flags(FALSE, FALSE, FALSE, "", "", 0)

Exit(status, message, panic) == [status |-> status, message |-> message, panic |-> panic]

NoExit == Exit(0, "", FALSE)

\* The tika command does not run.
CliAtRest ==
    /\ cliBuild = "none"
    /\ flags = NoFlags
    /\ cliPc = "rest"
    /\ cancelVar = "nil"
    /\ procCtxDone = FALSE
    /\ javaProc = "none"
    /\ exit = NoExit

\* No call of waitForStart is under way.
PollAtRest ==
    /\ variant = "none"
    /\ timeout = 0
    /\ hasDeadline = FALSE
    /\ bounce = 0
    /\ served = 0
    /\ pc = "rest"
    /\ iLoop = 0
    /\ err = NilErr
    /\ now = 0
    /\ wakeAt = 0
    /\ tickBuffered = FALSE
    /\ ctxErr = "none"
    /\ pollRet = NilErr
    /\ attempts = 0
    /\ oks = 0
    /\ lastFailure = NilErr
    /\ waited = 0
    /\ lastGap = 0

Init ==
    /\ url \in {ValidURL, BadURL}
    /\ httpClient \in {"nil", "custom"}
    /\ op = "none"
    /\ exchange = NoExchange
    /\ ret = NoRet
    /\ requests = 0
    /\ CliAtRest
    /\ PollAtRest
    /\ ServerAtRest
    /\ DownloadAtRest

\* A Client whose last result the caller has taken.
Idle == op = "none"

\* What every operation does around its result: one call.
Issue(name, ex) ==
    /\ op' = name
    /\ exchange' = ex
    /\ requests' = callRequests(ex)
    /\ httpClient' = callHTTPClient(httpClient)
    /\ UNCHANGED <<url, pollVars, serverVars, downloadVars, cliVars>>

Call ==
    /\ Idle
    /\ \E method \in CallMethods : \E ex \in ExchangesFor(method, url, PlainExchanges) :
           /\ Issue("call", ex)
           /\ ret' = Ret(call(ex).bytes, <<>>, <<>>, call(ex).err)

CallStringOp ==
    /\ Idle
    /\ \E o \in StringOps : \E ex \in ExchangesFor(o[2], url, PlainExchanges) :
           /\ Issue(o[1], ex)
           /\ ret' = Ret(callString(ex).bytes, <<>>, <<>>, callString(ex).err)

MetaRecursiveOp ==
    /\ Idle
    /\ \E ex \in ExchangesFor("PUT", url, JsonExchanges) : \E r \in MetaRecursive(ex) :
           /\ Issue("MetaRecursive", ex)
           /\ ret' = Ret(NoBytes, r.docs, <<>>, r.err)

ParseRecursiveOp ==
    /\ Idle
    /\ \E ex \in ExchangesFor("PUT", url, JsonExchanges) : \E r \in ParseRecursive(ex) :
           /\ Issue("ParseRecursive", ex)
           /\ ret' = Ret(NoBytes, <<>>, r.strs, r.err)

\* json.Unmarshal(body, &v) with v a struct or a map: a JSON object is
\* decoded and a JSON null leaves v as it is; anything else is an error.
UnmarshalObject(body) ==
    IF body.kind = "json" /\ body.type \in {"object", "null"} THEN NilErr
    ELSE Err("json", 0, "")

(***************************************************************************)
(* The responses of /parsers/details, /detectors and /mime-types, and the  *)
(* Parser, Detector and MimeType values json.Unmarshal makes of them.      *)
(***************************************************************************)
\* A JSON array member of an object: left out, or the list of its elements.
RawList(present, elems) == [present |-> present, elems |-> elems]

NoList == RawList(FALSE, <<>>)

\* The object of one parser or detector: its name, its flags ("absent",
\* "true" or "false"), its children and its supported types.
RawNode(n, d, c, ch, st) ==
    [name |-> n, decorated |-> d, composite |-> c, children |-> ch, supportedTypes |-> st]

\* The flags of the responses: both left out, or both given.
RawFlags == { <<"absent", "absent">>, <<"true", "false">>, <<"false", "true">> }

RawLeaves ==
    { RawNode(n, f[1], f[2], ch, NoList) :
        n \in {"a", "b"}, f \in {<<"absent", "absent">>, <<"true", "false">>},
        ch \in {NoList, RawList(TRUE, <<>>)} }

RawInner ==
    { RawNode("m", f[1], f[2], RawList(TRUE, ch), NoList) :
        f \in {<<"absent", "absent">>, <<"false", "true">>},
        ch \in SeqsUpTo(RawLeaves, MaxChildren) }

RawRoots ==
    { RawNode("root", f[1], f[2], ch, st) :
        f \in RawFlags,
        ch \in {NoList} \cup { RawList(TRUE, <<m>>) : m \in RawInner }
              \cup { RawList(TRUE, <<x, y>>) : x, y \in RawLeaves },
        st \in {NoList, RawList(TRUE, <<"test-type">>)} }

\* One entry of the /mime-types object.
RawMime(name, alias, super) == [name |-> name, alias |-> alias, supertype |-> super]

RawMimes ==
    { RawMime(n, a, s) :
        n \in {"text/plain"},
        a \in {NoList, RawList(TRUE, <<>>), RawList(TRUE, <<"x", "y">>)},
        s \in {"absent", "text/x"} }

\* The JSON documents the three requests are answered with: the ones of
\* every JSON request, and objects with members.
TreeBodies(o) ==
    JsonBodies \cup
    { JsonBody("object", <<r>>) : r \in IF o = "MimeTypes" THEN RawMimes ELSE RawRoots }

TreeExchanges(o) ==
    PlainExchanges \cup { Exchange("response", 200, b, TRUE) : b \in TreeBodies(o) }

\* A Go slice: nil, or its elements.
GoSlice(isNil, elems) == [isNil |-> isNil, elems |-> elems]

NilSlice == GoSlice(TRUE, <<>>)

\* A missing flag read as set.
DecodeFlagUnlessFalse(f) == f # "false"

\* A bool field: true for the JSON true; a key left out leaves the zero value.
DecodeFlag(f) == f = "true"

\* A []string field.
DecodeStrings(l) == IF l.present THEN GoSlice(FALSE, l.elems) ELSE NilSlice

RECURSIVE DecodeParser(_)
\* json.Unmarshal into a Parser: the members by name, the children in order.
DecodeParser(n) ==
    [ Name |-> n.name,
      Decorated |-> DecodeFlag(n.decorated),
      Composite |-> DecodeFlag(n.composite),
      Children |-> IF n.children.present
                   THEN GoSlice(FALSE, [i \in 1..Len(n.children.elems) |->
                                          DecodeParser(n.children.elems[i])])
                   ELSE NilSlice,
      SupportedTypes |-> DecodeStrings(n.supportedTypes) ]

RECURSIVE DecodeDetector(_)
\* json.Unmarshal into a Detector, which has no field for the other members.
DecodeDetector(n) ==
    [ Name |-> n.name,
      Composite |-> DecodeFlag(n.composite),
      Children |-> IF n.children.present
                   THEN GoSlice(FALSE, [i \in 1..Len(n.children.elems) |->
                                          DecodeDetector(n.children.elems[i])])
                   ELSE NilSlice ]

\* json.Unmarshal into a map[string]MimeType: the entries of the object.
DecodeMimeTypes(items) ==
    { [ key |-> items[i].name,
        Alias |-> DecodeStrings(items[i].alias),
        SuperType |-> IF items[i].supertype = "absent" THEN "" ELSE items[i].supertype ] :
      i \in 1..Len(items) }

\* var parsers Parser; var d Detector
ZeroParser ==
    [Name |-> "", Decorated |-> FALSE, Composite |-> FALSE, Children |-> NilSlice,
     SupportedTypes |-> NilSlice]

ZeroDetector == [Name |-> "", Composite |-> FALSE, Children |-> NilSlice]

\* var mt map[string]MimeType
NilMap == [isNil |-> TRUE, entries |-> {}]

\* What json.Unmarshal leaves in the variable of operation o: the decoded
\* object, or the variable as it was declared.
Unmarshalled(o, body) ==
    LET decoded == body.kind = "json" /\ body.type = "object"
    IN  CASE o = "Parsers" ->
               IF decoded /\ body.items # <<>> THEN DecodeParser(body.items[1]) ELSE ZeroParser
          [] o = "Detectors" ->
               IF decoded /\ body.items # <<>> THEN DecodeDetector(body.items[1])
               ELSE ZeroDetector
          [] o = "MimeTypes" ->
               IF decoded THEN [isNil |-> FALSE, entries |-> DecodeMimeTypes(body.items)]
               ELSE NilMap

\* The value Parsers, MimeTypes and Detectors return, as a list of one: none
\* (a nil pointer or map) when call has failed, else the variable.
DecodeValue(o, ex) ==
    LET r == call(ex)
    IN  IF r.err # NilErr THEN <<>> ELSE <<Unmarshalled(o, r.bytes)>>

\* Parsers, MimeTypes and Detectors: call's error, or that of the decoding.
Decode(ex) ==
    LET r == call(ex)
    IN  IF r.err # NilErr THEN r.err ELSE UnmarshalObject(r.bytes)

DecodeOp ==
    /\ Idle
    /\ \E o \in DecodeOps : \E ex \in ExchangesFor("GET", url, TreeExchanges(o)) :
           /\ Issue(o, ex)
           /\ ret' = Ret(NoBytes, DecodeValue(o, ex), <<>>, Decode(ex))

\* The caller takes the result; the Client keeps its fields.
Return ==
    /\ op # "none"
    /\ op' = "none"
    /\ exchange' = NoExchange
    /\ ret' = NoRet
    /\ requests' = 0
    /\ UNCHANGED <<url, httpClient, pollVars, serverVars, downloadVars, cliVars>>

Next ==
    \/ Call
    \/ CallStringOp
    \/ MetaRecursiveOp
    \/ ParseRecursiveOp
    \/ DecodeOp
    \/ Return

Spec == Init /\ [][Next]_vars

(***************************************************************************)
(* Server.waitForStart. The sleep loop of tika/server.go tries, sleeps a   *)
(* second and counts the seconds against s.timeout; the ticker form        *)
(* selects on one time.Ticker and on the caller's ctx; the tickTimeout     *)
(* form derives a ctx with s.startupTimeout and selects on a new time.Tick *)
(* in every iteration.                                                     *)
(***************************************************************************)
\* time.Second, in polling intervals of 500ms.
Second == 2

\* 500 * time.Millisecond, the interval of the ticker and of time.Tick.
TickInterval == 1

Variants == {"sleepLoop", "ticker", "tickTimeout"}

CtxVariants == {"ticker", "tickTimeout"}

\* How the server answers its n-th health request, n counted from 1.
FailingExchanges == { TransportError, Exchange("response", 500, TextBody(""), TRUE) }

VersionExchanges(n, b) ==
    IF n <= b THEN FailingExchanges
    ELSE { Exchange("response", 200, TextBody("1.14"), TRUE) }

\* The error of c.Version(): that of callString.
Version(ex) == callString(ex).err

\* ctx.Err() once ctx is done.
CtxError(e) == Err(e, 0, "")

\* What the passing of time to t does to a ctx with this deadline.
Expire(e, t) ==
    IF e = "none" /\ hasDeadline /\ t >= timeout THEN "deadline exceeded" ELSE e

\* A slip in the loop's condition: the last second is not tried.
LoopContinuesShort(j, t) == j + Second < t

\* for i := time.Duration(0); i < s.timeout; i += time.Second
LoopContinues(j, t) == j < t

\* A slip after the request: the next try does not wait.
NextTryNoWait(t, d) == t

\* When the wait before the next try ends: time.Sleep(d), or a new time.Tick(d).
NextTry(t, d) == t + d

\* A slip after the request: a nil error is not returned on.
AfterVersionNoReturn(v, e) == IF v = "sleepLoop" THEN "sleep" ELSE "select"

\* Where the call goes when Version has returned e.
AfterVersion(v, e) ==
    IF e = NilErr THEN "done"
    ELSE IF v = "sleepLoop" THEN "sleep"
    ELSE "select"

PollInit ==
    /\ url = ValidURL
    /\ httpClient = "nil"
    /\ op = "none"
    /\ exchange = NoExchange
    /\ ret = NoRet
    /\ requests = 0
    /\ CliAtRest
    /\ variant \in Variants
    /\ timeout \in -1..MaxTimeout
    /\ hasDeadline \in BOOLEAN
    /\ variant = "sleepLoop" => ~hasDeadline
    /\ variant = "tickTimeout" => hasDeadline
    /\ ~hasDeadline /\ variant # "sleepLoop" => timeout = 0
    /\ bounce \in 0..MaxBounce
    /\ served = 0
    /\ pc = "start"
    /\ iLoop = 0
    /\ err = NilErr
    /\ now = 0
    /\ wakeAt = 0
    /\ tickBuffered = FALSE
    /\ ctxErr = "none"
    /\ pollRet = NilErr
    /\ attempts = 0
    /\ oks = 0
    /\ lastFailure = NilErr
    /\ waited = 0
    /\ lastGap = 0
    /\ ServerAtRest
    /\ DownloadAtRest

pollConfig == <<variant, timeout, hasDeadline, bounce>>

\* waitForStart is called: the client is made, and the loop variable, the
\* ticker or the derived ctx is set up.
WaitForStart ==
    /\ pc = "start"
    /\ pc' = IF variant = "sleepLoop" THEN "loop" ELSE "select"
    /\ ctxErr' = Expire(ctxErr, now)
    /\ wakeAt' = IF variant = "tickTimeout" THEN NextTry(now, TickInterval) ELSE wakeAt
    /\ UNCHANGED <<clientVars, serverVars, downloadVars, cliVars, pollConfig, served, iLoop, err, now, tickBuffered,
                   pollRet, attempts, oks, lastFailure, waited, lastGap>>

\* A health request goes out.
IssueVersion ==
    /\ pc' = "request"
    /\ attempts' = attempts + 1
    /\ lastGap' = waited

\* The head of the sleep loop: try again, or return err.
LoopCheck ==
    /\ pc = "loop"
    /\ IF LoopContinues(iLoop, timeout)
       THEN /\ IssueVersion
            /\ UNCHANGED pollRet
       ELSE /\ pc' = "done"
            /\ pollRet' = err
            /\ UNCHANGED <<attempts, lastGap>>
    /\ UNCHANGED <<clientVars, serverVars, downloadVars, cliVars, pollConfig, served, iLoop, err, now, wakeAt,
                   tickBuffered, ctxErr, oks, lastFailure, waited>>

\* Version has returned e: return nil, or wait for the next try.
Returned(e) ==
    /\ pc' = AfterVersion(variant, e)
    /\ err' = IF variant = "sleepLoop" THEN e ELSE err
    /\ pollRet' = pollRet
    /\ wakeAt' = CASE variant = "sleepLoop" -> NextTry(now, Second)
                   [] variant = "tickTimeout" -> NextTry(now, TickInterval)
                   [] OTHER -> wakeAt
    /\ oks' = IF e = NilErr THEN oks + 1 ELSE oks
    /\ lastFailure' = IF e = NilErr THEN lastFailure ELSE e
    /\ waited' = 0
    /\ UNCHANGED <<clientVars, serverVars, downloadVars, cliVars, pollConfig, iLoop, now, tickBuffered, ctxErr,
                   attempts, lastGap>>

\* The server answers the health request; the answer of a request whose ctx
\* is done is not waited for.
Reply ==
    /\ pc = "request"
    /\ variant \in CtxVariants => ctxErr = "none"
    /\ \E ex \in VersionExchanges(served + 1, bounce) :
           /\ served' = served + 1
           /\ Returned(Version(ex))

\* The ctx of the request is done: Version returns its error.
Abort ==
    /\ pc = "request"
    /\ variant \in CtxVariants
    /\ ctxErr # "none"
    /\ UNCHANGED served
    /\ Returned(CtxError(ctxErr))

\* time.Sleep(time.Second) is over; i += time.Second.
Wake ==
    /\ pc = "sleep"
    /\ now >= wakeAt
    /\ pc' = "loop"
    /\ iLoop' = iLoop + Second
    /\ UNCHANGED <<clientVars, serverVars, downloadVars, cliVars, pollConfig, served, err, now, wakeAt, tickBuffered,
                   ctxErr, pollRet, attempts, oks, lastFailure, waited, lastGap>>

\* The select receives a tick.
SelectTick ==
    /\ pc = "select"
    /\ IF variant = "ticker" THEN tickBuffered ELSE now >= wakeAt
    /\ IssueVersion
    /\ tickBuffered' = FALSE
    /\ UNCHANGED <<clientVars, serverVars, downloadVars, cliVars, pollConfig, served, iLoop, err, now, wakeAt, ctxErr,
                   pollRet, oks, lastFailure, waited>>

\* The select receives from ctx.Done().
SelectDone ==
    /\ pc = "select"
    /\ ctxErr # "none"
    /\ pc' = "done"
    /\ pollRet' = CtxError(ctxErr)
    /\ UNCHANGED <<clientVars, serverVars, downloadVars, cliVars, pollConfig, served, iLoop, err, now, wakeAt,
                   tickBuffered, ctxErr, attempts, oks, lastFailure, waited, lastGap>>

\* An interval passes while the call is blocked: the reused ticker ticks (its
\* channel holds one tick), and a deadline that is reached ends the ctx.
Advance ==
    /\ pc \in {"request", "sleep", "select"}
    /\ now < MaxTime
    /\ now' = now + 1
    /\ tickBuffered' = (variant = "ticker" \/ tickBuffered)
    /\ ctxErr' = Expire(ctxErr, now + 1)
    /\ waited' = IF pc = "request" THEN waited ELSE waited + 1
    /\ UNCHANGED <<clientVars, serverVars, downloadVars, cliVars, pollConfig, served, pc, iLoop, err, wakeAt, pollRet,
                   attempts, oks, lastFailure, lastGap>>

\* The caller cancels the ctx.
Cancel ==
    /\ variant \in CtxVariants
    /\ pc \in {"start", "request", "select"}
    /\ ctxErr = "none"
    /\ ctxErr' = "canceled"
    /\ UNCHANGED <<clientVars, serverVars, downloadVars, cliVars, pollConfig, served, pc, iLoop, err, now, wakeAt,
                   tickBuffered, pollRet, attempts, oks, lastFailure, waited, lastGap>>

PollNext ==
    \/ WaitForStart
    \/ LoopCheck
    \/ Reply
    \/ Abort
    \/ Wake
    \/ SelectTick
    \/ SelectDone
    \/ Advance
    \/ Cancel

PollSpec == PollInit /\ [][PollNext]_vars

(***************************************************************************)
(* The Server: NewServer, Start and Close in the four forms the repository *)
(* holds. "Close" is tika/server.go (NewServer with options, Start, Close),*)
(* "StartServer" the StartServer and Close of the oldest server file,      *)
(* "Stop" the NewServer(jar, port), Start(ctx) and Stop of the next, and   *)
(* "cancel" the Start(ctx) that returns the cancel of the process ctx.     *)
(* Start runs waitForStart: the actions of the poll above are part of it.  *)
(***************************************************************************)
Apis == {"Close", "StartServer", "Stop", "cancel"}

\* The forms that read the process's stderr through cmd.StderrPipe().
PipeApis == {"Close", "StartServer", "cancel"}

\* The forms whose Start leaves a goroutine in cmd.Wait().
WaitingApis == {"Close", "StartServer"}

\* The waitForStart each form runs.
PollVariant(a) ==
    CASE a \in {"Close", "StartServer"} -> "sleepLoop"
      [] a = "Stop" -> "ticker"
      [] OTHER -> "tickTimeout"

\* An option that was not passed.
NoOption == "no option"

DefaultHostname == "localhost"

DefaultPort == "9998"

\* Jar paths: none, one that names no file, one that names a file.
Jars == {"", "/invalid/jar/path.jar", "tika-server.jar"}

\* os.Stat(jar) returns no error.
FileExists(j) == j = "tika-server.jar"

Hostnames == {NoOption, "example.com", "192.168.0.%31"}

Ports == {NoOption, "8080", "%31"}

OptionOr(o, d) == IF o = NoOption THEN d ELSE o

\* urlString := "http://" + s.hostname + ":" + s.port
URLString(h, p) == "http://" \o h \o ":" \o p

\* url.Parse(urlString) returns no error: "%31" is no escape a host may hold.
URLParses(h, p) == h # "192.168.0.%31" /\ p # "%31"

\* A NewServer that takes the jar's existence on trust.
StatCheckedNever(a) == FALSE

\* The forms whose NewServer looks for the jar on disk.
StatChecked(a) == a # "Stop"

\* The error NewServer (in "StartServer": the head of StartServer) returns.
NewServerError(a, j, h, p) ==
    IF j = "" THEN Err("no jar file specified", 0, "")
    ELSE IF StatChecked(a) /\ ~FileExists(j) THEN Err("jar file not found", 0, j)
    ELSE IF ~URLParses(OptionOr(h, DefaultHostname), OptionOr(p, DefaultPort))
         THEN Err("invalid url", 0, URLString(OptionOr(h, DefaultHostname), OptionOr(p, DefaultPort)))
    ELSE NilErr

\* s.url = u.String(), which gives these URLs back as they were written.
NewServerURL(h, p) == URLString(OptionOr(h, DefaultHostname), OptionOr(p, DefaultPort))

\* A process: "unstarted" is a Cmd whose Start failed, "exit0" and "exit1"
\* a process that ended by itself, "killed" one that a signal ended.
Proc(state) == [state |-> state, reaped |-> FALSE, signalled |-> FALSE]

Alive(p) == p.state = "running"

\* What cmd.Wait() returns for a process that ended so.
WaitError(state) ==
    CASE state = "exit0" -> NilErr
      [] state = "exit1" -> Err("exit", 1, "exit status 1")
      [] OTHER -> Err("exit", 0, "signal: killed")

\* What the process wrote to its stderr.
StderrOutput == TextBody("server stderr")

\* fmt.Errorf("%v: %v", err, buf.String()), and the like of the other forms.
StartError(cause, out) ==
    [kind |-> "error starting server", code |-> cause.code, field |-> cause.kind, body |-> out]

\* The startup timeouts Start is followed with, and the servers it polls.
StartTimeouts == {0, Second}

StartBounces == {0, MaxBounce}

SpawnOutcomes(a) == IF a \in PipeApis THEN {"pipe error", "start error", "ok"}
                    ELSE {"start error", "ok"}

ServerInit ==
    /\ url = ValidURL
    /\ httpClient = "nil"
    /\ op = "none"
    /\ exchange = NoExchange
    /\ ret = NoRet
    /\ requests = 0
    /\ CliAtRest
    /\ PollAtRest
    /\ DownloadAtRest
    /\ api \in Apis
    /\ jar \in Jars
    /\ hostname \in Hostnames
    /\ api = "Stop" => hostname = NoOption
    /\ port \in Ports
    /\ newErr = NilErr
    /\ sUrl = ""
    /\ cmd = 0
    /\ sDone = NoDone
    /\ procs = <<>>
    /\ startPc = "new"
    /\ startRet = NilErr
    /\ cancelCalled = FALSE
    /\ closers = [c \in Callers |-> NotCalled]

serverConfig == <<api, jar, hostname, port>>

NewServer ==
    /\ startPc = "new"
    /\ newErr' = NewServerError(api, jar, hostname, port)
    /\ sUrl' = IF newErr' = NilErr THEN NewServerURL(hostname, port) ELSE ""
    /\ startPc' = IF newErr' = NilErr THEN "ready" ELSE "failed"
    /\ UNCHANGED <<clientVars, pollVars, downloadVars, cliVars, serverConfig, cmd, sDone, procs,
                   startRet, cancelCalled, closers>>

\* Start up to its call of waitForStart: the Cmd is made, its stderr pipe is
\* opened, the process is spawned and the goroutine that waits for it is
\* started. Start is followed on a Server that nobody has tried to close.
StartBody ==
    /\ \A c \in Callers : closers[c].pc = "idle"
    /\ \E outcome \in SpawnOutcomes(api) :
         IF outcome = "ok"
         THEN /\ procs' = Append(procs, Proc("running"))
              /\ cmd' = IF api = "cancel" THEN cmd ELSE Len(procs) + 1
              /\ sDone' = IF api = "StartServer" THEN [set |-> TRUE, buf |-> <<>>] ELSE sDone
              /\ startPc' = "polling"
              /\ \E t \in StartTimeouts, d \in BOOLEAN, b \in StartBounces :
                    /\ d => api = "Stop"
                    /\ (api = "Stop" /\ ~d) => t = 0
                    /\ variant' = PollVariant(api)
                    /\ timeout' = t
                    /\ hasDeadline' = (api = "cancel" \/ d)
                    /\ bounce' = b
              /\ pc' = "start"
              /\ url' = sUrl
              /\ UNCHANGED <<startRet, cancelCalled>>
         ELSE /\ procs' = Append(procs, Proc("unstarted"))
              /\ cmd' = IF api = "Close" THEN Len(procs) + 1 ELSE cmd
              /\ startPc' = "returned"
              /\ startRet' = Err("spawn", 0, outcome)
              /\ cancelCalled' = (api = "cancel" \/ cancelCalled)
              /\ UNCHANGED <<url, variant, timeout, hasDeadline, bounce, pc, sDone>>
    /\ UNCHANGED <<httpClient, op, exchange, ret, requests, downloadVars, cliVars, serverConfig,
                   newErr, sUrl, closers, served, iLoop, err, now, wakeAt, tickBuffered,
                   ctxErr, pollRet, attempts, oks, lastFailure, waited, lastGap>>

\* Start on a Server that NewServer has made (StartServer makes its own).
Start ==
    /\ startPc = "ready"
    /\ StartBody

\* The forms whose Server can be started again: Start is a method of a
\* Server that has Close or Stop.
RestartApis == {"Close", "Stop"}

\* Start called again on a Server whose Start has returned, with or without
\* an error (TestStartError calls Start twice on one Server).
StartAgain ==
    /\ startPc = "returned"
    /\ api \in RestartApis
    /\ Len(procs) < MaxStarts
    /\ StartBody

\* waitForStart has returned: Start returns nil, or goes on to read what the
\* process wrote. The "cancel" form cancels the process ctx first; the
\* "Stop" form calls CombinedOutput on the Cmd it has started, which fails.
StartPolled ==
    /\ startPc = "polling"
    /\ pc = "done"
    /\ IF pollRet = NilErr
       THEN /\ startPc' = "returned"
            /\ startRet' = NilErr
       ELSE IF api = "Stop"
       THEN /\ startPc' = "returned"
            /\ startRet' = Err("error reading output", 0, "exec: already started")
       ELSE /\ startPc' = "reading"
            /\ startRet' = pollRet
    /\ cancelCalled' =
          (cancelCalled \/ (api = "cancel" /\ (pollRet # NilErr \/ ctxErr = "canceled")))
    /\ variant' = "none"
    /\ timeout' = 0
    /\ hasDeadline' = FALSE
    /\ bounce' = 0
    /\ served' = 0
    /\ pc' = "rest"
    /\ iLoop' = 0
    /\ err' = NilErr
    /\ now' = 0
    /\ wakeAt' = 0
    /\ tickBuffered' = FALSE
    /\ ctxErr' = "none"
    /\ pollRet' = NilErr
    /\ lastFailure' = NilErr
    /\ waited' = 0
    /\ lastGap' = 0
    /\ UNCHANGED <<clientVars, downloadVars, cliVars, serverConfig, newErr, sUrl, cmd, sDone,
                   procs, closers, attempts, oks>>

\* The read of stderr returns once the process has ended; the pipe that
\* cmd.Wait() has closed by then gives an error in place of the output.
StartRead ==
    /\ startPc = "reading"
    /\ ~Alive(procs[Len(procs)])
    /\ startPc' = "returned"
    /\ startRet' = IF api \in WaitingApis /\ procs[Len(procs)].reaped
                   THEN Err("error reading stderr", 0, "file already closed")
                   ELSE StartError(startRet, StderrOutput)
    /\ UNCHANGED <<clientVars, pollVars, downloadVars, cliVars, serverConfig, newErr, sUrl, cmd,
                   sDone, procs, cancelCalled, closers>>

\* A process ends by itself.
ProcExit ==
    /\ \E k \in 1..Len(procs) : \E st \in {"exit0", "exit1"} :
          /\ Alive(procs[k])
          /\ procs' = [procs EXCEPT ![k].state = st]
    /\ UNCHANGED <<clientVars, pollVars, downloadVars, cliVars, serverConfig, newErr, sUrl, cmd,
                   sDone, startPc, startRet, cancelCalled, closers>>

\* go func() { done <- s.cmd.Wait() }(): the process is reaped and its pipes
\* are closed; only StartServer has put the channel into the Server.
Reap ==
    /\ api \in WaitingApis
    /\ \E k \in 1..Len(procs) :
          /\ procs[k].state \in {"exit0", "exit1", "killed"}
          /\ ~procs[k].reaped
          /\ procs' = [procs EXCEPT ![k].reaped = TRUE]
          /\ sDone' = IF sDone.set
                      THEN [sDone EXCEPT !.buf = Append(@, WaitError(procs[k].state))]
                      ELSE sDone
    /\ UNCHANGED <<clientVars, pollVars, downloadVars, cliVars, serverConfig, newErr, sUrl, cmd,
                   startPc, startRet, cancelCalled, closers>>

\* exec.CommandContext kills the process once its ctx is done.
KillOnCancel ==
    /\ api = "cancel"
    /\ cancelCalled \/ ctxErr = "canceled"
    /\ \E k \in 1..Len(procs) :
          /\ Alive(procs[k])
          /\ procs' = [procs EXCEPT ![k].state = "killed", ![k].signalled = TRUE]
    /\ UNCHANGED <<clientVars, pollVars, downloadVars, cliVars, serverConfig, newErr, sUrl, cmd,
                   sDone, startPc, startRet, cancelCalled, closers>>

\* s.cmd.Process.Kill() on the k-th process: the processes after it.
Kill(k) ==
    [procs EXCEPT ![k].state = IF Alive(procs[k]) THEN "killed" ELSE @,
                  ![k].signalled = TRUE]

\* The Server may be closed: it was made and no Start is under way (of
\* StartServer the caller holds a Server only when it returned no error).
Closable ==
    \/ startPc = "ready"
    \/ startPc = "returned" /\ (api = "StartServer" => startRet = NilErr)

Called(c, e) == [closers EXCEPT ![c] = [pc |-> "done", ret |-> e]]

\* A Close that takes a Server without a Cmd for a closed one.
CloseInvalidSilent == NilErr

\* errors.New("Close called on invalid Server: did you call Start?")
CloseInvalid == Err("invalid server", 0, "did you call Start?")

\* Server.Close of tika/server.go and of the StartServer form.
Close(c) ==
    /\ api \in WaitingApis
    /\ Closable
    /\ closers[c].pc = "idle"
    /\ IF cmd = 0
       THEN /\ closers' = Called(c, CloseInvalid)
            /\ UNCHANGED <<sDone, procs>>
       ELSE IF sDone.set /\ sDone.buf # <<>>
       THEN /\ closers' = Called(c, Head(sDone.buf))
            /\ sDone' = [sDone EXCEPT !.buf = Tail(@)]
            /\ UNCHANGED procs
       ELSE IF procs[cmd].state = "unstarted"
       THEN /\ closers' = Called(c, Err("panic", 0, "nil pointer dereference"))
            /\ UNCHANGED <<sDone, procs>>
       ELSE IF procs[cmd].reaped
       THEN /\ closers' = Called(c, Err("kill", 0, "os: process already finished"))
            /\ UNCHANGED <<sDone, procs>>
       ELSE /\ closers' = Called(c, NilErr)
            /\ procs' = Kill(cmd)
            /\ UNCHANGED sDone
    /\ UNCHANGED <<clientVars, pollVars, downloadVars, cliVars, serverConfig, newErr, sUrl, cmd,
                   startPc, startRet, cancelCalled>>

\* Server.Stop up to its call of cmd.Wait().
StopKill(c) ==
    /\ api = "Stop"
    /\ Closable
    /\ closers[c].pc = "idle"
    /\ IF cmd = 0
       THEN /\ closers' = Called(c, Err("panic", 0, "nil pointer dereference"))
            /\ UNCHANGED procs
       ELSE IF procs[cmd].reaped
       THEN /\ closers' = Called(c, Err("could not kill server", 0, "os: process already finished"))
            /\ UNCHANGED procs
       ELSE /\ closers' = [closers EXCEPT ![c].pc = "killed"]
            /\ procs' = Kill(cmd)
    /\ UNCHANGED <<clientVars, pollVars, downloadVars, cliVars, serverConfig, newErr, sUrl, cmd,
                   sDone, startPc, startRet, cancelCalled>>

\* A slip in Stop: the error of cmd.Wait() is dropped.
StopErrorDropped(w) == NilErr

\* What Stop makes of the error of cmd.Wait().
StopError(w) ==
    IF w = NilErr THEN NilErr
    ELSE Err("could not wait for server to finish", w.code, w.field)

\* Server.Stop from its call of cmd.Wait() on.
StopWait(c) ==
    /\ closers[c].pc = "killed"
    /\ IF procs[cmd].reaped
       THEN /\ closers' = Called(c, StopError(Err("wait", 0, "exec: Wait was already called")))
            /\ UNCHANGED procs
       ELSE /\ closers' = Called(c, StopError(WaitError(procs[cmd].state)))
            /\ procs' = [procs EXCEPT ![cmd].reaped = TRUE]
    /\ UNCHANGED <<clientVars, pollVars, downloadVars, cliVars, serverConfig, newErr, sUrl, cmd,
                   sDone, startPc, startRet, cancelCalled>>

\* A Start that hands out its cancel with every result.
StartCancelAlways(e) == "cancel"

\* The cancel that the ctx form of Start returns next to the error e: nil
\* with the errors of the pipe, of the spawn, of the read of stderr and of
\* the readiness poll, the cancel of the process ctx with a nil error.
StartCancel(e) ==
    IF e.kind \in {"spawn", "error reading stderr", "error starting server"}
    THEN "nil"
    ELSE "cancel"

\* The caller calls the cancel that Start returned.
CallCancel(c) ==
    /\ api = "cancel"
    /\ startPc = "returned"
    /\ startRet = NilErr
    /\ closers[c].pc = "idle"
    /\ closers' = Called(c, NilErr)
    /\ cancelCalled' = TRUE
    /\ UNCHANGED <<clientVars, pollVars, downloadVars, cliVars, serverConfig, newErr, sUrl, cmd,
                   sDone, procs, startPc, startRet>>

ServerNext ==
    \/ NewServer
    \/ Start
    \/ StartPolled
    \/ StartRead
    \/ ProcExit
    \/ Reap
    \/ KillOnCancel
    \/ \E c \in Callers : Close(c)
    \/ \E c \in Callers : StopKill(c)
    \/ \E c \in Callers : StopWait(c)
    \/ \E c \in Callers : CallCancel(c)
    \/ PollNext

ServerSpec == ServerInit /\ [][ServerNext]_vars

\* The Server with callers that call Start more than once.
RestartNext ==
    \/ ServerNext
    \/ StartAgain

\* TestStartError: a Server of the default hostname and port, in every form.
RestartInit ==
    /\ ServerInit
    /\ jar = "tika-server.jar"
    /\ hostname = NoOption
    /\ port = NoOption

RestartSpec == RestartInit /\ [][RestartNext]_vars

\* The Server under the scheduling the code can count on: the goroutine of
\* Start and the one in cmd.Wait() take their steps, a select whose ctx is
\* done comes to take that case, time passes, a request whose ctx is done is
\* given up, exec.CommandContext kills on a done ctx, and (in favour of the
\* caller) every health request is answered. Nothing makes the process end
\* by itself, and nothing makes the caller cancel.
ServerLive ==
    /\ ServerSpec
    /\ WF_vars(WaitForStart)
    /\ WF_vars(LoopCheck)
    /\ WF_vars(Reply)
    /\ WF_vars(Abort)
    /\ WF_vars(Wake)
    /\ SF_vars(SelectDone)
    /\ WF_vars(Advance)
    /\ WF_vars(StartPolled)
    /\ WF_vars(StartRead)
    /\ WF_vars(Reap)
    /\ WF_vars(KillOnCancel)

(***************************************************************************)
(* DownloadServer, in the form that knows MD5 hashes only ("md5":          *)
(* tika/server.go) and in the one that also knows SHA-512 hashes           *)
(* ("sha512"). The file at path is followed by what it holds: nothing      *)
(* ("absent"), bytes with the pinned hash ("good"), other bytes ("bad"),   *)
(* no bytes ("empty") or the head of a download ("partial").               *)
(***************************************************************************)
Builds == {"md5", "sha512"}

\* Version identifiers: none, one that was never supported, Version114 and
\* Version119.
Versions == {"", "1.0", "1.14", "1.19"}

FileStates == {"absent", "good", "bad", "empty", "partial"}

\* A DownloadServer that takes any version for a supported one.
PinnedAny(b, v) == TRUE

\* md5s[version] (and sha512s[v]) holds a hash.
Pinned(b, v) == v = "1.14" \/ (b = "sha512" /\ v = "1.19")

\* A hash check that no file passes.
ValidFileNever(f) == FALSE

\* A hash check that an empty file passes.
ValidFileOrEmpty(f) == f \in {"good", "empty"}

\* validateFileMD5(path, wantH), or getHash(path, alg) and the comparison.
ValidFile(f) == f = "good"

DownloadInit ==
    /\ url = ValidURL
    /\ httpClient = "nil"
    /\ op = "none"
    /\ exchange = NoExchange
    /\ ret = NoRet
    /\ requests = 0
    /\ CliAtRest
    /\ PollAtRest
    /\ ServerAtRest
    /\ dBuild \in Builds
    /\ dVersion \in Versions
    /\ file \in FileStates
    /\ fileBefore = file
    /\ dPc = "called"
    /\ dRet = NilErr
    /\ fetches = 0
    /\ fileWrites = 0

downloadConfig == <<dBuild, dVersion, fileBefore>>

DownloadReturn(e) ==
    /\ dPc' = "done"
    /\ dRet' = e

\* The head of DownloadServer: the pinned hash is looked up, and a file that
\* is at path already is hashed.
DownloadCheck ==
    /\ dPc = "called"
    /\ IF ~Pinned(dBuild, dVersion)
       THEN DownloadReturn(Err("unsupported Tika version", 0, dVersion))
       ELSE IF ValidFile(file)
       THEN DownloadReturn(NilErr)
       ELSE /\ dPc' = "create"
            /\ UNCHANGED dRet
    /\ UNCHANGED <<clientVars, pollVars, serverVars, cliVars, downloadConfig, file, fetches, fileWrites>>

\* os.Create(path): the file is made, or cut to no bytes.
DownloadCreate ==
    /\ dPc = "create"
    /\ \E ok \in BOOLEAN :
          IF ok
          THEN /\ file' = "empty"
               /\ fileWrites' = fileWrites + 1
               /\ dPc' = "fetch"
               /\ UNCHANGED dRet
          ELSE /\ DownloadReturn(Err("error creating file", 0, ""))
               /\ UNCHANGED <<file, fileWrites>>
    /\ UNCHANGED <<clientVars, pollVars, serverVars, cliVars, downloadConfig, fetches>>

\* ctxhttp.Get(ctx, nil, url)
DownloadFetch ==
    /\ dPc = "fetch"
    /\ fetches' = fetches + 1
    /\ \E ok \in BOOLEAN :
          IF ok
          THEN /\ dPc' = "copy"
               /\ UNCHANGED dRet
          ELSE DownloadReturn(Err("unable to download", 0, ""))
    /\ UNCHANGED <<clientVars, pollVars, serverVars, cliVars, downloadConfig, file, fileWrites>>

\* io.Copy(out, resp.Body): the body holds the archive or other bytes, and
\* the copy may break off.
DownloadCopy ==
    /\ dPc = "copy"
    /\ fileWrites' = fileWrites + 1
    /\ \E got \in {"good", "bad", "partial"} :
          /\ file' = got
          /\ IF got = "partial"
             THEN DownloadReturn(Err("error saving download", 0, ""))
             ELSE /\ dPc' = "validate"
                  /\ UNCHANGED dRet
    /\ UNCHANGED <<clientVars, pollVars, serverVars, cliVars, downloadConfig, fetches>>

\* The hash of what was saved is compared; a file that fails is removed.
DownloadValidate ==
    /\ dPc = "validate"
    /\ IF ValidFile(file)
       THEN /\ DownloadReturn(NilErr)
            /\ UNCHANGED <<file, fileWrites>>
       ELSE \E removed \in BOOLEAN :
              IF removed
              THEN /\ file' = "absent"
                   /\ fileWrites' = fileWrites + 1
                   /\ DownloadReturn(Err("invalid md5", 0, ""))
              ELSE /\ DownloadReturn(Err("invalid md5: error removing", 0, ""))
                   /\ UNCHANGED <<file, fileWrites>>
    /\ UNCHANGED <<clientVars, pollVars, serverVars, cliVars, downloadConfig, fetches>>

DownloadNext ==
    \/ DownloadCheck
    \/ DownloadCreate
    \/ DownloadFetch
    \/ DownloadCopy
    \/ DownloadValidate

DownloadSpec == DownloadInit /\ [][DownloadNext]_vars

(***************************************************************************)
(* The tika command. cmd/tika/main.go downloads the jar when asked to,     *)
(* starts a server when it has a jar, reads its input and runs the action; *)
(* log.Fatal and log.Fatalf print and call os.Exit(1), which runs no       *)
(* deferred call. The build "cancel" calls cancel() before log.Fatalf once *)
(* the server may run; the build "defer" relies on its defer cancel().     *)
(***************************************************************************)
CliBuilds == {"cancel", "defer"}

\* The actions of the runs: one that needs an input file, one that needs
\* none, and one that main does not know.
CliActions == {"parse", "version", "bogus"}

\* case parse, detect, language, meta
InputActions == {"parse"}

KnownActions == {"parse", "version"}

\* The -filename of the runs: not given, a file os.Open fails on, a file.
Filenames == {"", "unreadable", "file"}

\* What the runtime prints when a nil func value is called.
NilFuncPanic == "panic: runtime error: invalid memory address or nil pointer dereference"

CliInit ==
    /\ url = ValidURL
    /\ httpClient = "nil"
    /\ op = "none"
    /\ exchange = NoExchange
    /\ ret = NoRet
    /\ requests = 0
    /\ PollAtRest
    /\ ServerAtRest
    /\ DownloadAtRest
    /\ cliBuild \in CliBuilds
    /\ flags \in { Flags(dv, sj, su, fn, a, n) :
                     dv \in BOOLEAN, sj \in BOOLEAN, su \in BOOLEAN, fn \in Filenames,
                     a \in CliActions, n \in {0, 1} }
    /\ cliPc = "main"
    /\ cancelVar = "nil"
    /\ procCtxDone = FALSE
    /\ javaProc = "none"
    /\ exit = NoExit

\* One step of main: where it goes and what it leaves behind.
CliStep(to, fl, cv, done, jp, ex) ==
    /\ cliPc' = to
    /\ flags' = fl
    /\ cancelVar' = cv
    /\ procCtxDone' = done
    /\ javaProc' = jp
    /\ exit' = ex
    /\ UNCHANGED <<cliBuild, clientVars, pollVars, serverVars, downloadVars>>

CliGoes(to) == CliStep(to, flags, cancelVar, procCtxDone, javaProc, exit)

\* log.Fatal(err), log.Fatalf(...): the message is printed and the process
\* exits with status 1; no deferred call runs.
LogFatal(msg) ==
    CliStep("exited", flags, cancelVar, procCtxDone, javaProc, Exit(1, msg, FALSE))

\* cancel() followed by log.Fatalf(...): the call of a nil cancel panics; a
\* cancel that Start returned cancels the process ctx, and main goes on to
\* log.Fatalf.
CancelThenFatal(msg) ==
    IF cancelVar = "nil"
    THEN CliStep("exited", flags, cancelVar, procCtxDone, javaProc, Exit(2, NilFuncPanic, TRUE))
    ELSE CliStep("exiting", flags, cancelVar, TRUE, javaProc, Exit(1, msg, FALSE))

\* How main fails once the server may have been started.
CliFail(msg) == IF cliBuild = "cancel" THEN CancelThenFatal(msg) ELSE LogFatal(msg)

\* flag.Parse() and the check of flag.NArg().
CliParse ==
    /\ cliPc = "main"
    /\ IF flags.nargs # 1
       THEN CliStep("exited", flags, cancelVar, procCtxDone, javaProc, Exit(1, "usage", FALSE))
       ELSE CliGoes("download")

\* if *downloadVersion != "": the jar path is defaulted and DownloadServer
\* is called.
CliDownload ==
    /\ cliPc = "download"
    /\ IF flags.downloadVersion
       THEN \E ok \in BOOLEAN :
               IF ok
               THEN CliStep("checkURL", [flags EXCEPT !.serverJAR = TRUE], cancelVar,
                            procCtxDone, javaProc, exit)
               ELSE LogFatal("download error")
       ELSE CliGoes("checkURL")

\* if *serverURL == "" && *serverJAR == ""
CliCheckURL ==
    /\ cliPc = "checkURL"
    /\ IF ~flags.serverURL /\ ~flags.serverJAR
       THEN LogFatal("no URL specified: set serverURL, serverJAR and/or downloadVersion")
       ELSE CliGoes(IF flags.serverJAR THEN "newServer" ELSE "input")

\* tika.NewServer(*serverJAR)
CliNewServer ==
    /\ cliPc = "newServer"
    /\ \E ok \in BOOLEAN :
          IF ok THEN CliGoes("start") ELSE LogFatal("NewServer error")

\* s.Start(context.Background()), defer cancel() and *serverURL = s.URL():
\* a Start that fails has cancelled the ctx of its process itself.
CliStart ==
    /\ cliPc = "start"
    /\ \E ok \in BOOLEAN :
          IF ok
          THEN CliStep("input", [flags EXCEPT !.serverURL = TRUE], "set", procCtxDone,
                       "running", exit)
          ELSE LogFatal("could not start server")

\* The actions that need an input have a -filename, and it is opened.
CliInput ==
    /\ cliPc = "input"
    /\ IF flags.action \in InputActions /\ flags.filename = ""
       THEN CliFail("error: you must provide an input filename")
       ELSE IF flags.action \in InputActions /\ flags.filename = "unreadable"
       THEN CliFail("error opening file")
       ELSE CliGoes("process")

\* The action is run against the server. When it has succeeded its result
\* is printed and main returns, which runs the deferred cancel().
CliProcess ==
    /\ cliPc = "process"
    /\ IF flags.action \notin KnownActions
       THEN CliFail("error: invalid action")
       ELSE \E ok \in BOOLEAN :
               IF ok
               THEN CliStep("exiting", flags, cancelVar, cancelVar = "set", javaProc,
                            Exit(0, "", FALSE))
               ELSE CliFail("tika error")

\* The process of the command ends: os.Exit in log.Fatalf, or main's return.
CliExit ==
    /\ cliPc = "exiting"
    /\ CliGoes("exited")

\* The goroutine of exec.CommandContext kills the java process once its ctx
\* is done, for as long as the command runs.
CliKill ==
    /\ cliPc \notin {"rest", "exited"}
    /\ procCtxDone
    /\ javaProc = "running"
    /\ CliStep(cliPc, flags, cancelVar, procCtxDone, "killed", exit)

CliNext ==
    \/ CliParse
    \/ CliDownload
    \/ CliCheckURL
    \/ CliNewServer
    \/ CliStart
    \/ CliInput
    \/ CliProcess
    \/ CliExit
    \/ CliKill

CliSpec == CliInit /\ [][CliNext]_vars

(***************************************************************************)
(* The claims about the client. They are read off the exchange the         *)
(* operation met and the result it returned.                               *)
(***************************************************************************)
\* The server answered, and the answer's status is in 200..299.
Answered2xx ==
    /\ exchange.kind = "response"
    /\ exchange.status \in 200..299

AnsweredOutside2xx ==
    /\ exchange.kind = "response"
    /\ exchange.status \notin 200..299

\* The raw documents of a response that is a JSON array of objects.
RawDocs == exchange.body.items

ArrayOfObjects ==
    /\ Answered2xx
    /\ exchange.readOK
    /\ exchange.body.kind = "json"
    /\ exchange.body.type = "array"
    /\ \A i \in 1..Len(RawDocs) : RawDocs[i].type = "object"

Raw(i, k) == RawDocs[i].members[k]

IsStrings(v) ==
    /\ v.type = "array"
    /\ \A j \in 1..Len(v.elems) : v.elems[j].type = "string"

\* A string, or an array of strings.
WellFormedValue(v) == v.type = "string" \/ IsStrings(v)

\* A number, a boolean, null, a nested object, or an array with a non-string.
OffendingValue(v) == v # Absent /\ ~WellFormedValue(v)

Offending(i) == { k \in Keys : OffendingValue(Raw(i, k)) }

WellFormedResponse ==
    /\ ArrayOfObjects
    /\ \A i \in 1..Len(RawDocs) : Offending(i) = {}

\* C1 as stated: a response with a status outside 200..299 gives call a
\* non-nil error that carries the status code and the text of the response
\* body, and no result bytes.
C1_ErrorCarriesStatusAndBody ==
    (op = "call" /\ AnsweredOutside2xx) =>
        /\ ret.err # NilErr
        /\ ret.err.code = exchange.status
        /\ ret.err.body = exchange.body
        /\ ret.bytes = NoBytes

\* C2 as stated: call returns (body, nil) exactly when a response was
\* received and its status is in 200..299, and then the bytes are the body.
C2_SuccessIffStatus2xx ==
    op = "call" =>
        ((ret.err = NilErr /\ ret.bytes = exchange.body) <=> Answered2xx)

\* C2 amended: call returns (body, nil) exactly when a response was received,
\* its status is in 200..299 and its body was read to the end without error;
\* 200 and 299 succeed, 199 and 300 fail, and the bytes returned with a nil
\* error are the complete body.
C2_SuccessIffStatus2xxAndBodyRead ==
    op = "call" =>
        /\ (ret.err = NilErr) <=> (Answered2xx /\ exchange.readOK)
        /\ ret.err = NilErr => ret.bytes = exchange.body
        /\ (exchange.kind = "response" /\ exchange.status \in {199, 300}) => ret.err # NilErr
        /\ (exchange.kind = "response" /\ exchange.status \in {200, 299} /\ exchange.readOK)
               => ret.err = NilErr

C2_Witness ==
    /\ op = "call"
    /\ exchange.kind = "response"
    /\ exchange.status = 299
    /\ ret.err = NilErr
    /\ ret.bytes = TextBody("test value")

\* C3: for a well-formed response MetaRecursive returns one map per raw
\* object in the same order; a string "x" becomes the list <<"x">>, the same
\* list an array holding only "x" becomes, and an array keeps its order.
C3_NormalizesInOrder ==
    (op = "MetaRecursive" /\ WellFormedResponse) =>
        /\ ret.err = NilErr
        /\ Len(ret.docs) = Len(RawDocs)
        /\ \A i \in 1..Len(RawDocs) : \A k \in Keys :
              /\ Raw(i, k).type = "string" => ret.docs[i][k].vals = <<Raw(i, k).str>>
              /\ Raw(i, k).type = "array" =>
                    /\ Len(ret.docs[i][k].vals) = Len(Raw(i, k).elems)
                    /\ \A j \in 1..Len(Raw(i, k).elems) :
                          ret.docs[i][k].vals[j] = Raw(i, k).elems[j].str
        /\ \A i, j \in 1..Len(RawDocs) : \A k, l \in Keys :
              (Raw(i, k).type = "string" /\ Raw(j, l) = JArray(<<Raw(i, k)>>))
                  => ret.docs[i][k].vals = ret.docs[j][l].vals

C3_Witness ==
    /\ op = "MetaRecursive"
    /\ WellFormedResponse
    /\ Len(RawDocs) = 2
    /\ Raw(1, XTIKAContent) = JString("a")
    /\ Raw(1, OtherKey) = JArray(<<JString("a"), JString("b")>>)
    /\ Raw(2, XTIKAContent) = JArray(<<JString("a")>>)
    /\ ret.docs[1][XTIKAContent].vals = <<"a">>
    /\ ret.docs[1][OtherKey].vals = <<"a", "b">>
    /\ ret.docs[2][XTIKAContent].vals = <<"a">>

\* C4: when MetaRecursive returns without error the i-th map has exactly the
\* keys of the i-th raw object, and a key whose value is an empty array is
\* there with an empty list.
C4_KeepsEveryKey ==
    (op = "MetaRecursive" /\ ArrayOfObjects /\ ret.err = NilErr) =>
        /\ Len(ret.docs) = Len(RawDocs)
        /\ \A i \in 1..Len(RawDocs) : \A k \in Keys :
              /\ ret.docs[i][k].has <=> Raw(i, k) # Absent
              /\ Raw(i, k) = JArray(<<>>) => ret.docs[i][k] = Entry(<<>>)

C4_Witness ==
    /\ op = "MetaRecursive"
    /\ ArrayOfObjects
    /\ ret.err = NilErr
    /\ Len(RawDocs) = 2
    /\ Raw(2, OtherKey) = JArray(<<>>)
    /\ Raw(2, XTIKAContent) = Absent
    /\ ret.docs[2][OtherKey].has
    /\ ~ret.docs[2][XTIKAContent].has

\* C5: when a field of a document holds a number, a boolean, null, a nested
\* object or an array with a non-string element, MetaRecursive returns an
\* error naming a field that holds such a value (one of the first document
\* that has any) and returns no documents.
C5_RejectsOtherShapes ==
    (op = "MetaRecursive" /\ ArrayOfObjects
        /\ \E i \in 1..Len(RawDocs) : Offending(i) # {}) =>
        /\ ret.err.kind = "field"
        /\ ret.docs = <<>>
        /\ \E i \in 1..Len(RawDocs) :
              /\ ret.err.field \in Offending(i)
              /\ \A j \in 1..(i - 1) : Offending(j) = {}

C5_Witness ==
    /\ op = "MetaRecursive"
    /\ ArrayOfObjects
    /\ Len(RawDocs) = 2
    /\ Raw(1, XTIKAContent) = JString("a")
    /\ Offending(1) = {}
    /\ Raw(2, OtherKey) = JArray(<<JString("a"), JScalar("number")>>)
    /\ ret.err = FieldErr(OtherKey)
    /\ ret.docs = <<>>

\* A raw document has content: its content field is a string or an array of
\* strings that is not empty.
HasContent(i) ==
    \/ Raw(i, XTIKAContent).type = "string"
    \/ IsStrings(Raw(i, XTIKAContent)) /\ Raw(i, XTIKAContent).elems # <<>>

FirstContent(i) ==
    IF Raw(i, XTIKAContent).type = "string" THEN Raw(i, XTIKAContent).str
    ELSE Raw(i, XTIKAContent).elems[1].str

HasReturned(e) == pc = "done" /\ pollRet = e

ReturnedError == pc = "done" /\ pollRet # NilErr

\* C7: when the server fails its first N health requests and answers 2xx
\* from then on, and N+1 tries fit in the timeout or before the deadline,
\* waitForStart returns nil: it returns an error only if the sleep loop's
\* timeout has no room for N+1 tries, or the ctx was done before the server
\* was asked for the N+1st time.
C7_SucceedsWhenTriesFit ==
    ReturnedError =>
        /\ oks = 0
        /\ served <= bounce
        /\ variant = "sleepLoop" => ~(bounce * Second < timeout)
        /\ variant \in CtxVariants => ctxErr # "none"

C7_Witness ==
    /\ variant = "sleepLoop"
    /\ bounce = 2
    /\ bounce * Second < timeout
    /\ attempts = 3
    /\ lastFailure # NilErr
    /\ HasReturned(NilErr)

\* C8 as stated: when waitForStart returns after health requests of which
\* none has succeeded, it returns a non-nil error, which is the error of the
\* most recent failed health request, or the cancellation reason when it was
\* cancelled.
C8_ReturnsLastFailure ==
    (pc = "done" /\ oks = 0 /\ attempts >= 1) =>
        /\ pollRet # NilErr
        /\ \/ pollRet = lastFailure
           \/ ctxErr = "canceled" /\ pollRet = CtxError("canceled")

\* C9: the first health request that succeeds ends the call: waitForStart
\* has returned nil with it, no request and no wait having followed.
C9_ReturnsOnFirstSuccess ==
    oks >= 1 =>
        /\ oks = 1
        /\ HasReturned(NilErr)
        /\ served = bounce + 1
        /\ waited = 0

C9_Witness ==
    /\ variant = "ticker"
    /\ bounce = 2
    /\ oks = 1
    /\ attempts = 3
    /\ HasReturned(NilErr)

\* The polling interval of each form.
Interval == IF variant = "sleepLoop" THEN Second ELSE TickInterval

\* C10 as stated: a sleep or a timer wait of the polling interval lies
\* between any two consecutive health requests of a call.
C10_WaitsBetweenRequests == attempts >= 2 => lastGap >= Interval

\* C10 amended: every health request after the first follows a sleep or a
\* receive from the timer, so that a call has issued no more requests than
\* intervals have passed (the sleep loop: than seconds have passed, plus its
\* first); the sleep loop and the per-iteration time.Tick put a whole
\* interval between two requests, the reused ticker does not when a request
\* outlasts the interval, its next tick being in the channel already.
C10_OneRequestPerInterval ==
    /\ variant = "sleepLoop" /\ attempts >= 1 => (attempts - 1) * Second <= now
    /\ variant \in CtxVariants => attempts * TickInterval <= now
    /\ variant # "ticker" /\ attempts >= 2 => lastGap >= Interval

C10_Witness ==
    /\ variant = "ticker"
    /\ attempts = 3
    /\ pc = "request"
    /\ lastGap = 0
    /\ now = 3

(***************************************************************************)
(* The claims about the Client's fields and its requests.                  *)
(***************************************************************************)
\* C17 as stated: no operation of the Client writes a field of the Client.
C17_NoFieldWritten == [][httpClient' = httpClient /\ url' = url]_vars

\* C18: whatever the status or the transport error, an operation of the
\* Client issues at most one HTTP request, and none when the request could
\* not be built.
C18_AtMostOneRequest ==
    op # "none" =>
        /\ requests <= 1
        /\ requests = (IF exchange.kind = "badRequest" THEN 0 ELSE 1)

C18_Witness ==
    /\ op = "Detectors"
    /\ exchange.kind = "response"
    /\ exchange.status = 500
    /\ ret.err = StatusErr(500)
    /\ requests = 1

(***************************************************************************)
(* The claims about the Server.                                            *)
(***************************************************************************)
\* The process of the Start that ran last.
Spawned == procs[Len(procs)]

\* Start has got past the spawn and waitForStart has failed.
PollFailed ==
    /\ startPc \in {"reading", "returned"}
    /\ startRet # NilErr
    /\ startRet.kind # "spawn"

\* C12 as stated: when waitForStart has failed Start kills the process, and
\* the process does not run any more when Start returns its error.
C12_KillsOnFailure ==
    PollFailed =>
        /\ Alive(Spawned) => cancelCalled
        /\ startPc = "returned" => ~Alive(Spawned)

\* C13 as stated: the error Start returns after a failed poll holds the
\* poll's reason and the stderr output of the process.
C13_ErrorHoldsReasonAndStderr ==
    (PollFailed /\ startPc = "returned") =>
        /\ startRet.kind = "error starting server"
        /\ startRet.field \in {"status", "transport", "canceled", "deadline exceeded"}
        /\ startRet.body = StderrOutput

\* C14: when Stop has returned on a started Server the process does not run,
\* the kill was sent unless the process was reaped already, and Stop returns
\* nil only when the wait returned nil: an error of the wait is Stop's error.
C14_StopKillsAndWaits ==
    \A c \in Callers :
        (api = "Stop" /\ cmd # 0 /\ closers[c].pc = "done") =>
            /\ ~Alive(procs[cmd])
            /\ procs[cmd].reaped
            /\ closers[c].ret = NilErr =>
                  (procs[cmd].signalled /\ WaitError(procs[cmd].state) = NilErr)
            /\ closers[c].ret.kind = "could not wait for server to finish" =>
                  procs[cmd].signalled

C14_Witness ==
    /\ api = "Stop"
    /\ startPc = "returned"
    /\ startRet = NilErr
    /\ oks >= 1
    /\ closers[1].pc = "done"
    /\ closers[2].pc = "idle"
    /\ procs[cmd].state = "killed"
    /\ procs[cmd].reaped
    /\ closers[1].ret = Err("could not wait for server to finish", 0, "signal: killed")

\* C15: Close on a Server that was never started returns an error and
\* signals no process.
C15_CloseNeverStarted ==
    \A c \in Callers :
        (api \in WaitingApis /\ cmd = 0 /\ closers[c].pc = "done") =>
            /\ closers[c].ret # NilErr
            /\ closers[c].ret.kind = "invalid server"
            /\ \A k \in 1..Len(procs) : ~procs[k].signalled

C15_Witness ==
    /\ api = "Close"
    /\ startPc = "ready"
    /\ cmd = 0
    /\ procs = <<>>
    /\ closers[1].pc = "done"
    /\ closers[1].ret.kind = "invalid server"

\* What one call alone returns that has ended the process.
LoneResult == IF api = "Stop" THEN StopError(WaitError("killed")) ELSE NilErr

\* C16 as stated: when two calls of Close (or Stop) have returned on a
\* Server that Start found ready and whose process they ended, the process
\* does not run and each call has returned what one call alone returns.
C16_CloseIdempotent ==
    (/\ api \in {"Close", "StartServer", "Stop"}
     /\ cmd # 0
     /\ startPc = "returned"
     /\ startRet = NilErr
     /\ oks >= 1
     /\ procs[cmd].state = "killed"
     /\ \A c \in Callers : closers[c].pc = "done") =>
        /\ ~Alive(procs[cmd])
        /\ \A c \in Callers : closers[c].ret = LoneResult

C20_UnsupportedVersionTouchesNothing ==
    (/\ dPc \notin {"rest", "called"}
     /\ dVersion \in {"", "1.0"} \/ (dBuild = "md5" /\ dVersion = "1.19")) =>
        /\ dPc = "done"
        /\ dRet.kind = "unsupported Tika version"
        /\ file = fileBefore
        /\ fileWrites = 0
        /\ fetches = 0

C20_Witness ==
    /\ dVersion = "1.0"
    /\ dPc = "done"
    /\ dRet = Err("unsupported Tika version", 0, "1.0")
    /\ fileBefore = "bad"
    /\ file = "bad"
    /\ fetches = 0

(***************************************************************************)
(* The claim about a Start that does not hang.                             *)
(***************************************************************************)
\* The startup timeout bounds the poll, or the ctx of the poll is done.
PollBounded == variant = "sleepLoop" \/ ctxErr # "none"

\* The sleep of the sleep loop has reached the time up to which the poll is
\* followed.
SleepingAtHorizon == pc = "sleep" /\ now = MaxTime

\* C11 as stated: a Start whose poll is bounded by the startup timeout, or
\* whose ctx has expired or was cancelled, comes to return.
C11_StartReturns ==
    (startPc = "polling" /\ PollBounded) ~> (startPc = "returned" \/ SleepingAtHorizon)

\* The version asked for has a pinned hash.
KnownVersion == dVersion = "1.14" \/ (dBuild = "sha512" /\ dVersion = "1.19")

\* C21: when the file at path has the pinned hash of the version asked for,
\* DownloadServer returns nil, issues no network request and leaves the file
\* as it is.
C21_ValidFileShortCircuits ==
    (dPc \notin {"rest", "called"} /\ KnownVersion /\ fileBefore = "good") =>
        /\ dPc = "done"
        /\ dRet = NilErr
        /\ fetches = 0
        /\ fileWrites = 0
        /\ file = "good"

C21_Witness ==
    /\ dBuild = "sha512"
    /\ dVersion = "1.19"
    /\ fileBefore = "good"
    /\ dPc = "done"
    /\ dRet = NilErr
    /\ fetches = 0
    /\ file = "good"

C29_ErrorLeavesNoBrokenFile ==
    (dPc = "done" /\ dRet # NilErr) =>
        /\ file = fileBefore \/ file \in {"good", "absent"}
        /\ dRet.kind \in {"unable to download", "error saving download"} => file = fileBefore


\* C26 as stated: Start (StartServer) returns nil only if at least one
\* Version request of its readiness poll has been answered with a 2xx
\* status, whatever the startup timeout is.
C26_NilOnlyAfter2xx ==
    (startPc = "returned" /\ startRet = NilErr) => oks >= 1

\* C27 as stated: Close on a Server that Start has started, whose process
\* has exited and been waited for before the Close, returns the exit result
\* of the process and sends no kill.
C27_CloseReturnsExitResult ==
    \A c \in Callers :
        ( /\ api \in WaitingApis
          /\ startPc = "returned" /\ startRet = NilErr /\ oks >= 1
          /\ closers[c].pc = "done"
          /\ \A o \in Callers \ {c} : closers[o].pc = "idle"
          /\ procs[cmd].reaped /\ ~procs[cmd].signalled )
        => closers[c].ret = WaitError(procs[cmd].state)

\* The processes of the Server that run.
Running == {k \in 1..Len(procs) : Alive(procs[k])}

\* C24 as stated: of the processes that the Starts of one Server have
\* spawned at most one runs, and one that runs is the process that Close or
\* Stop ends.
C24_AtMostOneLiveProcess ==
    api \in RestartApis =>
        /\ Cardinality(Running) <= 1
        /\ \A k \in Running : k = cmd

\* Start returns in this step.
StartReturns == startPc # "returned" /\ startPc' = "returned"

\* C28: the ctx form of Start returns a cancel with a nil error and a nil
\* cancel with an error; when it returns an error the process ctx has been
\* cancelled; and the process ctx is cancelled, and the process killed, only
\* on an error path of Start, by the caller's call of the returned cancel
\* or after the caller's ctx was cancelled.
C28_CancelOrError ==
    [][ api = "cancel" =>
          /\ StartReturns =>
                /\ (startRet' = NilErr) <=> (StartCancel(startRet') # "nil")
                /\ startRet' # NilErr => cancelCalled'
          /\ (~cancelCalled /\ cancelCalled') =>
                \/ startPc' \in {"reading", "returned"} /\ startRet' # NilErr
                \/ ctxErr = "canceled"
                \/ \E c \in Callers : closers[c].pc = "idle" /\ closers'[c].pc = "done"
          /\ \A k \in 1..Len(procs) :
                (~procs[k].signalled /\ procs'[k].signalled) =>
                    (cancelCalled \/ ctxErr = "canceled") ]_vars

\* Start has returned the error of a failed readiness poll, the process ctx
\* cancelled and the process killed.
C28_Witness ==
    /\ api = "cancel"
    /\ startPc = "returned"
    /\ startRet.kind = "error starting server"
    /\ cancelCalled
    /\ Spawned.signalled

RECURSIVE Mirrors(_, _)
\* The decoded value v has the shape of the raw object: its name, its flags
\* (false for one left out), and its children one for one in their order.
Mirrors(raw, v) ==
    /\ v.Name = raw.name
    /\ v.Composite <=> (raw.composite = "true")
    /\ raw.composite = "absent" => ~v.Composite
    /\ "Decorated" \in DOMAIN v =>
          /\ v.Decorated <=> (raw.decorated = "true")
          /\ raw.decorated = "absent" => ~v.Decorated
    /\ ~raw.children.present => v.Children.elems = <<>>
    /\ Len(v.Children.elems) = Len(raw.children.elems)
    /\ \A i \in 1..Len(raw.children.elems) :
          Mirrors(raw.children.elems[i], v.Children.elems[i])

\* The request was answered with a 2xx status and a body that was read.
BodyRead ==
    /\ exchange.kind = "response"
    /\ exchange.status \in 200..299
    /\ exchange.readOK

\* C23: Parsers, Detectors and MimeTypes return a value of the shape of the
\* JSON object they were answered with (a flag left out is false, children
\* left out are an empty list, nesting and order are kept), and return an
\* error for an empty body, for text that is no JSON and for a JSON array.
C23_DecodesStructurally ==
    (op \in DecodeOps /\ BodyRead) =>
        LET body == exchange.body
        IN  /\ (body.kind = "text" \/ (body.kind = "json" /\ body.type = "array"))
                => ret.err # NilErr
            /\ (body.kind = "json" /\ body.type = "object" /\ body.items # <<>>) =>
                  /\ ret.err = NilErr
                  /\ Len(ret.docs) = 1
                  /\ op # "MimeTypes" => Mirrors(body.items[1], ret.docs[1])
                  /\ op = "MimeTypes" =>
                        /\ Cardinality(ret.docs[1].entries) = Len(body.items)
                        /\ \A i \in 1..Len(body.items) : \E e \in ret.docs[1].entries :
                              /\ e.key = body.items[i].name
                              /\ e.Alias.elems = body.items[i].alias.elems
                              /\ body.items[i].supertype = "absent" => e.SuperType = ""
                              /\ body.items[i].supertype # "absent" =>
                                    e.SuperType = body.items[i].supertype

\* Parsers has decoded a root without flags that has one child with the two
\* children "b" and "a".
C23_Witness ==
    /\ op = "Parsers"
    /\ BodyRead
    /\ exchange.body.kind = "json"
    /\ exchange.body.type = "object"
    /\ exchange.body.items # <<>>
    /\ exchange.body.items[1].decorated = "absent"
    /\ ret.err = NilErr
    /\ ~ret.docs[1].Decorated
    /\ Len(ret.docs[1].Children.elems) = 1
    /\ Len(ret.docs[1].Children.elems[1].Children.elems) = 2
    /\ ret.docs[1].Children.elems[1].Children.elems[1].Name = "b"
    /\ ret.docs[1].Children.elems[1].Children.elems[2].Name = "a"

\* The run has ended after a failure: not with the result printed.
CliFailed == cliPc = "exited" /\ (exit.status # 0 \/ exit.panic)

\* C25 as stated: a run of the tika command that fails, with -server_jar
\* or with -server_url alone, ends with a message that says what failed
\* and a non-zero exit status, and never with a panic.
C25_FailsWithMessageNotPanic ==
    CliFailed =>
        /\ ~exit.panic
        /\ exit.status # 0
        /\ exit.message \notin {"", NilFuncPanic}

\* C30 as stated: when the run has started a java process, the process has
\* been terminated when the run has ended, whichever way it ended.
C30_StartedServerTerminated ==
    (cliPc = "exited" /\ javaProc # "none") => javaProc = "killed"

====
